---- MODULE Spec2Model ----
(***************************************************************************)
(* A model of adni_pet_pipeline.py: the nearest-visit matcher, the QC      *)
(* filter, the APOE genotype de-duplication, the metadata/QC key joins,    *)
(* the tau/amyloid alignment with its gap gate, and the region-column      *)
(* selection.  A table is a sequence of rows (records); every row carries  *)
(* idx, the row's position in the file it was loaded from.  The pandas     *)
(* calls are modelled by what they do: dropna, sort_values (stable,        *)
(* nulls last), merge (key join), merge_asof (sortedness and null checks,  *)
(* then the backward/forward/nearest search inside the by-group),          *)
(* drop_duplicates(keep="last"), map, Timedelta.days.                      *)
(***************************************************************************)
EXTENDS Integers, Sequences, FiniteSets, TLC

VARIABLES
    pc,              \* position of the run that the specification models
    \* a nearest-match stage
    pet_df,          \* its left table
    registry_df,     \* its right table
    stage,           \* which stage ran
    out,             \* what it returned: [status, rows]
    \* filter_pet_qc
    qc_df,           \* the table handed to it: [columns, rows]
    exclude_tracers, \* its exclusion list ({} for None or an empty list)
    qc_once,         \* filter_pet_qc(qc_df)
    qc_twice,        \* filter_pet_qc(qc_once)
    \* add_apoe4_status
    apoe_raw,        \* the genotype table
    apoe,            \* add_apoe4_status(apoe_raw)
    \* steps 2 and 7: scan metadata merged with the scan-level QC table
    modality,        \* "tau" or "amy"
    meta_df,         \* taumeta / amy_meta
    scanqc_df,       \* tau_qc / amy_qc
    merged,          \* tau / amy after the merge and the SCANDATE clean-up
    \* steps 4 to 9 on the tau PET table
    tau_raw,         \* tau_pet as loaded
    tau_pet,         \* tau_pet after filter_pet_qc
    tau_merged,      \* step 4
    tau_cov,         \* step 6 before its dropna: rows with DX and APOE4
    tau_adni,        \* step 5, then step 6
    amy_merged,      \* the amyloid table step 9 matches against
    tau_matched,     \* step 9 before the gap filter
    tau_amy,         \* step 9: [status, rows]
    \* step 10
    fs_region,       \* the FS_LABEL column of the region catalog
    columns_a,       \* the columns of tau_amy, in order
    columns_b,       \* the same columns in another order
    cortical_a,      \* the output columns for columns_a: [status, columns]
    cortical_b       \* the output columns for columns_b

matchVars == <<pet_df, registry_df, stage, out>>
qcVars == <<qc_df, exclude_tracers, qc_once, qc_twice>>
apoeVars == <<apoe_raw, apoe>>
joinVars == <<modality, meta_df, scanqc_df, merged>>
pipeVars == <<tau_raw, tau_pet, tau_merged, tau_cov, tau_adni, amy_merged,
              tau_matched, tau_amy>>
regionVars == <<fs_region, columns_a, columns_b, cortical_a, cortical_b>>

vars == <<pc, matchVars, qcVars, apoeVars, joinVars, pipeVars, regionVars>>

\* The variables of the parts a specification does not run stay empty.
MatchIdle == pet_df = <<>> /\ registry_df = <<>> /\ stage = <<>> /\ out = <<>>
QcIdle == qc_df = <<>> /\ exclude_tracers = <<>> /\ qc_once = <<>> /\ qc_twice = <<>>
ApoeIdle == apoe_raw = <<>> /\ apoe = <<>>
JoinIdle == modality = <<>> /\ meta_df = <<>> /\ scanqc_df = <<>> /\ merged = <<>>
PipeIdle ==
    /\ tau_raw = <<>> /\ tau_pet = <<>> /\ tau_merged = <<>> /\ tau_cov = <<>>
    /\ tau_adni = <<>> /\ amy_merged = <<>> /\ tau_matched = <<>> /\ tau_amy = <<>>
RegionIdle ==
    /\ fs_region = <<>> /\ columns_a = <<>> /\ columns_b = <<>>
    /\ cortical_a = <<>> /\ cortical_b = <<>>

exceptMatch == <<qcVars, apoeVars, joinVars, pipeVars, regionVars>>
exceptQc == <<matchVars, apoeVars, joinVars, pipeVars, regionVars>>
exceptApoe == <<matchVars, qcVars, joinVars, pipeVars, regionVars>>
exceptJoin == <<matchVars, qcVars, apoeVars, pipeVars, regionVars>>
exceptPipe == <<matchVars, qcVars, apoeVars, joinVars, regionVars>>
exceptRegion == <<matchVars, qcVars, apoeVars, joinVars, pipeVars>>

(***************************************************************************)
(* Null values.  load_csv coerces an unparsable date to NaT; a missing     *)
(* number is NaN.                                                          *)
(***************************************************************************)
NaT == -1
NaN == -1

\* Bounds of the nearest-match specification.
MaxLeft == 2
MaxRight == 2

Range(s) == {s[i] : i \in DOMAIN s}

BoundedSeq(S, n) == UNION {[1..k -> S] : k \in 0..n}

\* The rows of a freshly loaded table: row i of the file gets idx = i.
WithIdx(s) == [i \in DOMAIN s |-> [idx |-> i] @@ s[i]]

Abs(x) == IF x < 0 THEN -x ELSE x

(***************************************************************************)
(* DataFrame.dropna(subset=["RID", date column])                           *)
(***************************************************************************)
NotNullKey(r) == r.RID # NaN /\ r.DATE # NaT

dropna(df) == SelectSeq(df, NotNullKey)

(***************************************************************************)
(* DataFrame.sort_values(["RID", date column]): a stable sort, nulls last. *)
(***************************************************************************)
NullLastLT(x, y) == x # -1 /\ (y = -1 \/ x < y)

KeyLE(a, b) ==
    \/ NullLastLT(a.RID, b.RID)
    \/ a.RID = b.RID /\ (a.DATE = b.DATE \/ NullLastLT(a.DATE, b.DATE))

\* r goes behind every row that sorts no later than it.
Insert(r, s) ==
    LET k == Cardinality({i \in DOMAIN s : KeyLE(s[i], r)})
    IN  SubSeq(s, 1, k) \o <<r>> \o SubSeq(s, k + 1, Len(s))

RECURSIVE sort_values(_)
sort_values(df) ==
    IF df = <<>> THEN <<>>
    ELSE Insert(df[Len(df)], sort_values(SubSeq(df, 1, Len(df) - 1)))

(***************************************************************************)
(* pd.merge_asof(left, right, left_on=date, right_on=date, by="RID",       *)
(* direction="nearest").  It refuses null or unsorted `on` keys (it looks  *)
(* at the whole `on` column, not at each by-group), then gives every left  *)
(* row the last right row of its group at or before it (backward) or the   *)
(* first one at or after it (forward), whichever is nearer; backward wins  *)
(* a tie.  A left row whose group has no right row gets null right fields. *)
(***************************************************************************)
HasNullOn(df) == \E i \in DOMAIN df : df[i].DATE = NaT

IsMonotonic(df) ==
    \A i \in DOMAIN df : \A j \in DOMAIN df : i < j => df[i].DATE <= df[j].DATE

\* by="RID": a right row is a candidate for a left row of the same RID only.
SameByIgnored(l, r) == TRUE
SameBy(l, r) == l.RID = r.RID

SetMax(S) == CHOOSE x \in S : \A y \in S : y <= x
SetMin(S) == CHOOSE x \in S : \A y \in S : x <= y

\* Position in right of the backward match of l, 0 when there is none.
Backward(l, right) ==
    LET C == {j \in DOMAIN right : SameBy(l, right[j]) /\ right[j].DATE <= l.DATE}
    IN  IF C = {} THEN 0 ELSE SetMax(C)

\* Position in right of the forward match of l, 0 when there is none.
Forward(l, right) ==
    LET C == {j \in DOMAIN right : SameBy(l, right[j]) /\ right[j].DATE >= l.DATE}
    IN  IF C = {} THEN 0 ELSE SetMin(C)

NearestBackwardOnly(l, right) ==
    LET b == Backward(l, right)
        f == Forward(l, right)
    IN  IF b # 0 THEN b ELSE f

NearestForwardOnTie(l, right) ==
    LET b == Backward(l, right)
        f == Forward(l, right)
    IN  IF b # 0 /\ f # 0
        THEN IF l.DATE - right[b].DATE < right[f].DATE - l.DATE THEN b ELSE f
        ELSE IF b # 0 THEN b ELSE f

Nearest(l, right) ==
    LET b == Backward(l, right)
        f == Forward(l, right)
    IN  IF b # 0 /\ f # 0
        THEN IF l.DATE - right[b].DATE <= right[f].DATE - l.DATE THEN b ELSE f
        ELSE IF b # 0 THEN b ELSE f

\* The right-side fields of a left row that found no right row.
NoMatch == [idx |-> 0, RID |-> NaN, DATE |-> NaT]

Raised(why) == [status |-> why, rows |-> <<>>]

merge_asof(left, right) ==
    IF HasNullOn(left) THEN Raised("ValueError: null left keys")
    ELSE IF ~IsMonotonic(left) THEN Raised("ValueError: left keys must be sorted")
    ELSE IF HasNullOn(right) THEN Raised("ValueError: null right keys")
    ELSE IF ~IsMonotonic(right) THEN Raised("ValueError: right keys must be sorted")
    ELSE [status |-> "ok",
          rows |-> [i \in DOMAIN left |->
                      LET j == Nearest(left[i], right)
                      IN  [left |-> left[i],
                           right |-> IF j = 0 THEN NoMatch ELSE right[j]]]]

(***************************************************************************)
(* attach_nearest_visit(pet_df, registry_df, pet_date_col, reg_date_col,   *)
(* keep_reg_cols).  The right table handed to merge_asof is                *)
(* reg[["RID", reg_date_col, *keep_reg_cols]]: when keep_reg_cols names    *)
(* reg_date_col again (the default does), the right table has two columns  *)
(* of that label and merge_asof cannot take it as right_on.                *)
(***************************************************************************)
KeepDefault == <<"VISCODE", "VISCODE2", "EXAMDATE">>
KeepCodes == <<"VISCODE", "VISCODE2">>
KeepRegCols == {KeepDefault, KeepCodes}

Selected(reg_date_col, keep_reg_cols) == <<"RID", reg_date_col>> \o keep_reg_cols

IsUniqueLabel(cols, c) == Cardinality({i \in DOMAIN cols : cols[i] = c}) = 1

attach_nearest_visit(pet, registry, keep_reg_cols) ==
    LET p == sort_values(dropna(pet))
        r == sort_values(dropna(registry))
    IN  IF ~IsUniqueLabel(Selected("EXAMDATE", keep_reg_cols), "EXAMDATE")
        THEN Raised("ValueError: column label not unique")
        ELSE merge_asof(p, r)

(***************************************************************************)
(* The nearest-match stages.                                               *)
(***************************************************************************)
Rids == {1, 2}
LeftDates == {1, 2}
RightDates == {0, 1, 2, 3}

LeftRows == [RID : Rids, DATE : LeftDates]
              \cup {[RID |-> NaN, DATE |-> 1], [RID |-> 1, DATE |-> NaT]}
RightRows == [RID : Rids, DATE : RightDates]
              \cup {[RID |-> NaN, DATE |-> 1], [RID |-> 1, DATE |-> NaT]}

InitMatch ==
    /\ pc = "load"
    /\ pet_df \in {WithIdx(s) : s \in BoundedSeq(LeftRows, MaxLeft)}
    /\ registry_df \in {WithIdx(s) : s \in BoundedSeq(RightRows, MaxRight)}
    /\ stage = "none"
    /\ out = Raised("not run")
    /\ QcIdle /\ ApoeIdle /\ JoinIdle /\ PipeIdle /\ RegionIdle

\* Step 3 and step 7: tau / amy = attach_nearest_visit(scans, registry).
AttachNearestVisit ==
    /\ pc = "load"
    /\ \E keep \in KeepRegCols :
          /\ out' = attach_nearest_visit(pet_df, registry_df, keep)
          /\ stage' = IF keep = KeepDefault THEN "visit-default" ELSE "visit"
    /\ pc' = "matched"
    /\ UNCHANGED <<pet_df, registry_df, exceptMatch>>

NoNullBy(df) == \A i \in DOMAIN df : df[i].RID # NaN

\* Step 5: the tau rows against ADNIMERGE, both sorted, neither cleaned.
\* (What merge_asof does with a NaN by-key is left out: the tables of this
\* step are taken with their RIDs present.)
AttachNearestAssessment ==
    /\ pc = "load"
    /\ NoNullBy(pet_df) /\ NoNullBy(registry_df)
    /\ out' = merge_asof(sort_values(pet_df), sort_values(registry_df))
    /\ stage' = "assessment"
    /\ pc' = "matched"
    /\ UNCHANGED <<pet_df, registry_df, exceptMatch>>

\* Step 9: the tau rows against the amyloid rows, both sorted, neither cleaned.
AttachNearestAmyloid ==
    /\ pc = "load"
    /\ NoNullBy(pet_df) /\ NoNullBy(registry_df)
    /\ out' = merge_asof(sort_values(pet_df), sort_values(registry_df))
    /\ stage' = "crossmodality"
    /\ pc' = "matched"
    /\ UNCHANGED <<pet_df, registry_df, exceptMatch>>

NextMatch == AttachNearestVisit \/ AttachNearestAssessment \/ AttachNearestAmyloid

SpecMatch == InitMatch /\ [][NextMatch]_vars

(***************************************************************************)
(* Claims about the nearest-match stages, checked under SpecMatch.         *)
(***************************************************************************)
Returned == pc = "matched" /\ out.status = "ok"

Matched(row) == row.right.idx # 0

Gap(row) == Abs(registry_df[row.right.idx].DATE - row.left.DATE)

\* The right records a left record may be matched to: same RID, date present.
Candidates(l) ==
    {j \in DOMAIN registry_df :
        registry_df[j].RID = l.RID /\ registry_df[j].DATE # NaT}

\* C1: in every nearest-match stage, a returned row that carries right-side
\* fields took them from a right record of the left record's own RID.
C1_SameSubjectOnly ==
    Returned =>
        \A k \in DOMAIN out.rows :
            Matched(out.rows[k]) =>
                registry_df[out.rows[k].right.idx].RID = out.rows[k].left.RID

\* A row was matched inside its subject although a record of another
\* subject lies strictly nearer in time.
C1_Witness ==
    /\ Returned
    /\ \E k \in DOMAIN out.rows : \E j \in DOMAIN registry_df :
          /\ Matched(out.rows[k])
          /\ registry_df[j].RID # NaN
          /\ registry_df[j].RID # out.rows[k].left.RID
          /\ registry_df[j].DATE # NaT
          /\ Abs(registry_df[j].DATE - out.rows[k].left.DATE) < Gap(out.rows[k])

\* C2: in the table attach_nearest_visit returns, every left record with RID
\* and date present whose subject has dated right records is matched to one
\* of them, and none of them is nearer in absolute date difference.
C2_NearestOfSameSubject ==
    (Returned /\ stage = "visit") =>
        \A i \in DOMAIN pet_df :
            (NotNullKey(pet_df[i]) /\ Candidates(pet_df[i]) # {}) =>
                \E k \in DOMAIN out.rows :
                    /\ out.rows[k].left = pet_df[i]
                    /\ out.rows[k].right.idx \in Candidates(pet_df[i])
                    /\ \A j \in Candidates(pet_df[i]) :
                          Gap(out.rows[k]) <= Abs(registry_df[j].DATE - pet_df[i].DATE)

\* Candidates at T-2 and T+1: the later one, one day away, is the match.
C2_Witness ==
    /\ Returned /\ stage = "visit"
    /\ \E k \in DOMAIN out.rows :
          LET l == out.rows[k].left IN
          /\ \E j \in Candidates(l) : registry_df[j].DATE = l.DATE - 2
          /\ \E j \in Candidates(l) : registry_df[j].DATE = l.DATE + 1
          /\ Matched(out.rows[k])
          /\ registry_df[out.rows[k].right.idx].DATE = l.DATE + 1

\* Two candidates at the same distance d > 0 on either side, none nearer.
TiedAt(l, d) ==
    /\ d > 0
    /\ \E j \in Candidates(l) : registry_df[j].DATE = l.DATE - d
    /\ \E j \in Candidates(l) : registry_df[j].DATE = l.DATE + d
    /\ \A j \in Candidates(l) : Abs(registry_df[j].DATE - l.DATE) >= d

\* C3: a left record at T with candidates at T-d and T+d and none nearer is
\* matched to the earlier one, T-d.
C3_TieGoesToEarlier ==
    Returned =>
        \A k \in DOMAIN out.rows : \A d \in 1..3 :
            TiedAt(out.rows[k].left, d) =>
                /\ Matched(out.rows[k])
                /\ registry_df[out.rows[k].right.idx].DATE = out.rows[k].left.DATE - d

C3_Witness ==
    /\ Returned
    /\ \E k \in DOMAIN out.rows :
          /\ TiedAt(out.rows[k].left, 1)
          /\ registry_df[out.rows[k].right.idx].DATE = out.rows[k].left.DATE - 1

\* C4: every nearest-match stage returns a table, with exactly one row for
\* every left record whose RID and date are present (left records with a
\* null RID or date are dropped and never make the stage fail), whatever the
\* number of subjects and the row order.
C4_LeftOuterEveryStage ==
    pc = "matched" =>
        /\ out.status = "ok"
        /\ \A i \in DOMAIN pet_df :
              NotNullKey(pet_df[i]) =>
                  Cardinality({k \in DOMAIN out.rows : out.rows[k].left = pet_df[i]}) = 1
        /\ Len(out.rows) = Len(dropna(pet_df))

(***************************************************************************)
(* filter_pet_qc(pet_df, qc_col="QC_FLAG", qc_pass, tracer_col="TRACER",   *)
(* exclude_tracers).  A table is [columns, rows]; a row holds NaN / "-" in *)
(* a column its table does not have.                                       *)
(***************************************************************************)
MaxQcRows == 3

filter_pet_qc_AtLeast(df, qc_pass, exclude) ==
    LET PassesQc(r) == r.QC_FLAG >= qc_pass
        NotExcluded(r) == r.TRACER \notin exclude
        a == IF "QC_FLAG" \in df.columns
             THEN [df EXCEPT !.rows = SelectSeq(@, PassesQc)] ELSE df
    IN  IF exclude # {} /\ "TRACER" \in a.columns
        THEN [a EXCEPT !.rows = SelectSeq(@, NotExcluded)] ELSE a

filter_pet_qc(df, qc_pass, exclude) ==
    LET PassesQc(r) == r.QC_FLAG = qc_pass
        NotExcluded(r) == r.TRACER \notin exclude
        a == IF "QC_FLAG" \in df.columns
             THEN [df EXCEPT !.rows = SelectSeq(@, PassesQc)] ELSE df
    IN  IF exclude # {} /\ "TRACER" \in a.columns
        THEN [a EXCEPT !.rows = SelectSeq(@, NotExcluded)] ELSE a

QcSchemas == {{"RID"} \cup x : x \in SUBSET {"QC_FLAG", "TRACER"}}

QcRows(columns) ==
    [QC_FLAG : IF "QC_FLAG" \in columns THEN {1, 2, 3, NaN} ELSE {NaN},
     TRACER : IF "TRACER" \in columns THEN {"AV1451", "MK6240"} ELSE {"-"}]

QcTables ==
    UNION {{[columns |-> c, rows |-> WithIdx(s)] : s \in BoundedSeq(QcRows(c), MaxQcRows)}
             : c \in QcSchemas}

InitQc ==
    /\ pc = "load"
    /\ qc_df \in QcTables
    /\ exclude_tracers \in {{}, {"MK6240"}}
    /\ qc_once = <<>> /\ qc_twice = <<>>
    /\ MatchIdle /\ ApoeIdle /\ JoinIdle /\ PipeIdle /\ RegionIdle

\* Steps 4 and 8: tau_pet / amy_pet = filter_pet_qc(..., qc_pass=2, ...).
FilterPetQc ==
    /\ pc = "load"
    /\ qc_once' = filter_pet_qc(qc_df, 2, exclude_tracers)
    /\ pc' = "filtered"
    /\ UNCHANGED <<qc_df, exclude_tracers, qc_twice, exceptQc>>

\* The filter applied to its own result, with the same parameters.
FilterPetQcAgain ==
    /\ pc = "filtered"
    /\ qc_twice' = filter_pet_qc(qc_once, 2, exclude_tracers)
    /\ pc' = "refiltered"
    /\ UNCHANGED <<qc_df, exclude_tracers, qc_once, exceptQc>>

NextQc == FilterPetQc \/ FilterPetQcAgain

SpecQc == InitQc /\ [][NextQc]_vars

\* What C6 says a record must satisfy to be returned.
Retained(r) ==
    /\ "QC_FLAG" \notin qc_df.columns \/ r.QC_FLAG = 2
    /\ exclude_tracers = {} \/ "TRACER" \notin qc_df.columns
                            \/ r.TRACER \notin exclude_tracers

\* C6: filter_pet_qc returns exactly the input records that satisfy Retained,
\* in their input order, and applying it to its own result changes nothing.
C6_ExactFilterIdempotent ==
    /\ pc \in {"filtered", "refiltered"} =>
          /\ qc_once.columns = qc_df.columns
          /\ Range(qc_once.rows) = {r \in Range(qc_df.rows) : Retained(r)}
          /\ \A i \in DOMAIN qc_once.rows : \A j \in DOMAIN qc_once.rows :
                i < j => qc_once.rows[i].idx < qc_once.rows[j].idx
    /\ pc = "refiltered" => qc_twice = qc_once

\* One record dropped for its QC flag, one for its tracer, one returned.
C6_Witness ==
    /\ pc = "refiltered"
    /\ Len(qc_df.rows) = 3 /\ Len(qc_once.rows) = 1
    /\ \E r \in Range(qc_df.rows) : r.QC_FLAG = 3
    /\ \E r \in Range(qc_df.rows) : r.QC_FLAG = 2 /\ r.TRACER \in exclude_tracers

(***************************************************************************)
(* add_apoe4_status(apoe_df, genotype_col="GENOTYPE")                      *)
(***************************************************************************)
MaxApoeRows == 3

\* duplicated(subset=["RID"], keep=...): the positions flagged as duplicates.
\* keep="last" walks the table from its end, keep="first" from its start.
RECURSIVE DuplicatedLast(_, _, _)
DuplicatedLast(rows, i, seen) ==
    IF i = 0 THEN {}
    ELSE IF rows[i].RID \in seen
         THEN {i} \cup DuplicatedLast(rows, i - 1, seen)
         ELSE DuplicatedLast(rows, i - 1, seen \cup {rows[i].RID})

RECURSIVE DuplicatedFirst(_, _, _)
DuplicatedFirst(rows, i, seen) ==
    IF i > Len(rows) THEN {}
    ELSE IF rows[i].RID \in seen
         THEN {i} \cup DuplicatedFirst(rows, i + 1, seen)
         ELSE DuplicatedFirst(rows, i + 1, seen \cup {rows[i].RID})

\* The rows at the positions lo..hi that are outside D, in order.
RECURSIVE Kept(_, _, _, _)
Kept(rows, D, lo, hi) ==
    IF lo > hi THEN <<>>
    ELSE IF lo = hi THEN (IF lo \in D THEN <<>> ELSE <<rows[lo]>>)
    ELSE LET mid == (lo + hi) \div 2
         IN  Kept(rows, D, lo, mid) \o Kept(rows, D, mid + 1, hi)

\* The rows at the positions outside D, in order.
Without(rows, D) == Kept(rows, D, 1, Len(rows))

drop_duplicates_first(rows) == Without(rows, DuplicatedFirst(rows, 1, {}))

drop_duplicates_last(rows) == Without(rows, DuplicatedLast(rows, Len(rows), {}))

\* Series.map(mapping): a genotype outside the mapping gives NaN.
mapping(g) ==
    CASE g \in {"2/2", "2/3", "3/3"} -> 0
      [] g \in {"2/4", "3/4"} -> 1
      [] g = "4/4" -> 2
      [] OTHER -> NaN

add_apoe4_status(apoe_df) ==
    LET d == drop_duplicates_last(apoe_df)
    IN  [i \in DOMAIN d |->
            [idx |-> d[i].idx, RID |-> d[i].RID, APOE4 |-> mapping(d[i].GENOTYPE)]]

ApoeRids == {7, 8}
Genotypes == {"2/2", "2/3", "3/3", "2/4", "3/4", "4/4", "0/0"}

InitApoe ==
    /\ pc = "load"
    /\ apoe_raw \in {WithIdx(s) :
                       s \in BoundedSeq([RID : ApoeRids, GENOTYPE : Genotypes], MaxApoeRows)}
    /\ apoe = <<>>
    /\ MatchIdle /\ QcIdle /\ JoinIdle /\ PipeIdle /\ RegionIdle

\* Step 6: apoe = add_apoe4_status(apoe_raw).
AddApoe4Status ==
    /\ pc = "load"
    /\ apoe' = add_apoe4_status(apoe_raw)
    /\ pc' = "scored"
    /\ UNCHANGED <<apoe_raw, exceptApoe>>

NextApoe == AddApoe4Status

SpecApoe == InitApoe /\ [][NextApoe]_vars

\* The position of the record of rid that comes last in the input.
LastOf(rid) == SetMax({i \in DOMAIN apoe_raw : apoe_raw[i].RID = rid})

\* C7: add_apoe4_status returns exactly one row per distinct RID of its input,
\* scored from the genotype of the record of that RID that is last in input
\* order.
C7_OneRowPerRidLastWins ==
    pc = "scored" =>
        /\ {apoe[k].RID : k \in DOMAIN apoe} = {apoe_raw[i].RID : i \in DOMAIN apoe_raw}
        /\ \A k \in DOMAIN apoe :
              /\ \A m \in DOMAIN apoe : apoe[m].RID = apoe[k].RID => m = k
              /\ apoe[k].APOE4 = mapping(apoe_raw[LastOf(apoe[k].RID)].GENOTYPE)

\* Genotypes 3/4, 2/2, 4/4 in that order for RID 7: one row, score 2.
C7_Witness ==
    /\ pc = "scored"
    /\ apoe_raw = WithIdx(<<[RID |-> 7, GENOTYPE |-> "3/4"],
                            [RID |-> 7, GENOTYPE |-> "2/2"],
                            [RID |-> 7, GENOTYPE |-> "4/4"]>>)
    /\ Len(apoe) = 1 /\ apoe[1].RID = 7 /\ apoe[1].APOE4 = 2

(***************************************************************************)
(* Steps 2 and 7: DataFrame.merge(right, on=keys, how="left") of the scan  *)
(* metadata with the scan-level QC table, then SCANDATE = SCANDATE_META    *)
(* filled from SCANDATE_QC.  merge gives [left, right] rows; a row of tau  *)
(* or amy keeps the metadata record (meta) and the QC record (qc) it was   *)
(* combined with.                                                          *)
(***************************************************************************)
MaxMeta == 2
MaxScanQc == 2

\* The QC fields of a metadata record that found no QC record.
NoQc == [idx |-> 0, RID |-> NaN, VISCODE |-> "NaN", SCANDATE |-> NaT]

SameKeys(l, r, on) == \A k \in on : l[k] = r[k]

\* The rows a left record gives: one per matching right record, in the right
\* table's order, or one with null right fields.
JoinedRows(l, right, on, null) ==
    LET Matches(r) == SameKeys(l, r, on)
        M == SelectSeq(right, Matches)
    IN  IF M = <<>> THEN <<[left |-> l, right |-> null]>>
        ELSE [i \in DOMAIN M |-> [left |-> l, right |-> M[i]]]

RECURSIVE merge_left(_, _, _, _)
merge_left(left, right, on, null) ==
    IF left = <<>> THEN <<>>
    ELSE JoinedRows(Head(left), right, on, null)
            \o merge_left(Tail(left), right, on, null)

\* SCANDATE = SCANDATE_META.fillna(SCANDATE_QC)
fillna(a, b) == IF a # NaT THEN a ELSE b

WithScandate(rows) ==
    [i \in DOMAIN rows |->
        [meta |-> rows[i].left, qc |-> rows[i].right,
         SCANDATE |-> fillna(rows[i].left.SCANDATE, rows[i].right.SCANDATE)]]

\* Lines 85-99.
tau_meta_qc(taumeta, tau_qc) ==
    WithScandate(merge_left(taumeta, tau_qc, {"RID", "VISCODE"}, NoQc))

\* dropna(subset=["RID","SCANDATE"]).drop_duplicates(subset=["RID","SCANDATE"])
HasScandate(row) == row.SCANDATE # NaT

drop_duplicate_scans(rows) ==
    Without(rows, {i \in DOMAIN rows :
                      \E j \in DOMAIN rows :
                          /\ j < i
                          /\ rows[j].meta.RID = rows[i].meta.RID
                          /\ rows[j].SCANDATE = rows[i].SCANDATE})

\* Lines 150-163.
amy_meta_qc(amy_meta, amy_qc) ==
    drop_duplicate_scans(
        SelectSeq(WithScandate(merge_left(amy_meta, amy_qc, {"RID"}, NoQc)), HasScandate))

Viscodes == {"bl", "m12"}
MetaRows == [RID : Rids, VISCODE : Viscodes, SCANDATE : {NaT, 10}]
ScanQcRows == [RID : Rids, VISCODE : Viscodes, SCANDATE : {NaT, 20}]

InitJoin ==
    /\ pc = "load"
    /\ modality = "none"
    /\ meta_df \in {WithIdx(s) : s \in BoundedSeq(MetaRows, MaxMeta)}
    /\ scanqc_df \in {WithIdx(s) : s \in BoundedSeq(ScanQcRows, MaxScanQc)}
    /\ merged = <<>>
    /\ MatchIdle /\ QcIdle /\ ApoeIdle /\ PipeIdle /\ RegionIdle

\* Step 2: tau = taumeta.merge(tau_qc_keep, on=["RID","VISCODE"], how="left").
MergeTauMetaQc ==
    /\ pc = "load"
    /\ modality' = "tau"
    /\ merged' = tau_meta_qc(meta_df, scanqc_df)
    /\ pc' = "merged"
    /\ UNCHANGED <<meta_df, scanqc_df, exceptJoin>>

\* Step 7: amy = amy_meta.merge(amy_qc[...], on="RID", how="left").
MergeAmyMetaQc ==
    /\ pc = "load"
    /\ modality' = "amy"
    /\ merged' = amy_meta_qc(meta_df, scanqc_df)
    /\ pc' = "merged"
    /\ UNCHANGED <<meta_df, scanqc_df, exceptJoin>>

NextJoin == MergeTauMetaQc \/ MergeAmyMetaQc

SpecJoin == InitJoin /\ [][NextJoin]_vars

\* C10: in both modalities a metadata record is combined only with QC records
\* of the same RID and the same VISCODE.
C10_SameVisitOnly ==
    pc = "merged" =>
        \A k \in DOMAIN merged :
            merged[k].qc.idx # 0 =>
                /\ merged[k].qc.RID = merged[k].meta.RID
                /\ merged[k].qc.VISCODE = merged[k].meta.VISCODE

(***************************************************************************)
(* Steps 4 to 9 on the tau PET table.  Timestamps are in hours; the `on`   *)
(* column of a merge_asof (SCANDATE, EXAMDATE) is the field DATE.  A row   *)
(* derived from a tau scan keeps idx, the scan's position in tau_pet.      *)
(* AGE_AT_SCAN (line 143) is a derived column no step reads; it is left    *)
(* out.                                                                    *)
(***************************************************************************)
HoursPerDay == 24
GapLimit == 365

MaxTau == 2
MaxAmy == 1
MaxGateTau == 2
MaxGateAmy == 2

\* Midnight of day d.
Day(d) == d * HoursPerDay
T0 == Day(1000)

TauColumns == {"RID", "VISCODE", "SCANDATE", "QC_FLAG", "TRACER"}

NoVisit == [idx |-> 0, RID |-> NaN, VISCODE |-> "NaN", EXAMDATE |-> NaT]

\* Lines 109-116: QC filter, then the left merge with the visit-annotated scans.
qc_and_visit(pet, tau_with_visit) ==
    LET m == merge_left(pet, tau_with_visit, {"RID", "VISCODE"}, NoVisit)
    IN  [i \in DOMAIN m |->
            [idx |-> m[i].left.idx, RID |-> m[i].left.RID, DATE |-> m[i].left.DATE,
             EXAMDATE |-> m[i].right.EXAMDATE]]

\* Lines 125-133: the columns step 5 adds to a row.
WithDx(rows) ==
    [i \in DOMAIN rows |->
        [idx |-> rows[i].left.idx, RID |-> rows[i].left.RID, DATE |-> rows[i].left.DATE,
         DX |-> IF rows[i].right.idx = 0 THEN "NaN" ELSE rows[i].right.DX]]

\* Line 139: tau_adni.merge(apoe, on="RID", how="left").
NoApoe == [idx |-> 0, RID |-> NaN, APOE4 |-> NaN]

WithApoe4(rows, scores) ==
    LET m == merge_left(rows, scores, {"RID"}, NoApoe)
    IN  [i \in DOMAIN m |->
            [idx |-> m[i].left.idx, RID |-> m[i].left.RID, DATE |-> m[i].left.DATE,
             DX |-> m[i].left.DX, APOE4 |-> m[i].right.APOE4]]

\* Line 145: dropna(subset=["APOE4","DX"]).
HasApoe4(r) == r.APOE4 # NaN
HasCovariates(r) == r.APOE4 # NaN /\ r.DX # "NaN"

dropna_apoe4_only(rows) == SelectSeq(rows, HasApoe4)

dropna_covariates(rows) == SelectSeq(rows, HasCovariates)

\* Lines 186-194: the columns step 9 adds to a row.
WithAmyScan(rows) ==
    [i \in DOMAIN rows |->
        [idx |-> rows[i].left.idx, RID |-> rows[i].left.RID,
         SCANDATE_TAU |-> rows[i].left.DATE,
         SCANDATE_AMY |-> rows[i].right.DATE,
         amy |-> rows[i].right.idx]]

\* Line 196: Timedelta.days, the whole days of a difference, rounded down.
days(delta) == delta \div HoursPerDay

\* Lines 196-197.  A row without an amyloid scan has a NaN difference, and
\* NaN < 365 is false.
WithinGapInclusive(r) ==
    /\ r.SCANDATE_AMY # NaT
    /\ Abs(days(r.SCANDATE_AMY - r.SCANDATE_TAU)) <= GapLimit

WithinGap(r) ==
    /\ r.SCANDATE_AMY # NaT
    /\ Abs(days(r.SCANDATE_AMY - r.SCANDATE_TAU)) < GapLimit

gap_filter_inclusive(rows) == SelectSeq(rows, WithinGapInclusive)

gap_filter(rows) == SelectSeq(rows, WithinGap)

\* The tables of the pipeline specification.
TauRows ==
    [RID : Rids, VISCODE : {"bl"}, DATE : {T0, NaT},
     QC_FLAG : {1, 2}, TRACER : {"AV1451"}]
    \cup [RID : Rids, VISCODE : {"bl"}, DATE : {T0, NaT},
          QC_FLAG : {2}, TRACER : {"MK6240"}]

VisitTables ==
    {WithIdx(s) : s \in
        { <<>>,
          <<[RID |-> 1, VISCODE |-> "bl", EXAMDATE |-> T0]>>,
          <<[RID |-> 1, VISCODE |-> "bl", EXAMDATE |-> T0],
            [RID |-> 1, VISCODE |-> "bl", EXAMDATE |-> T0 + Day(1)]>> }}

AdniTables ==
    {WithIdx(s) : s \in
        { <<>>,
          <<[RID |-> 1, DATE |-> T0 - Day(30), DX |-> "CN"]>>,
          <<[RID |-> 1, DATE |-> T0 - Day(30), DX |-> "NaN"]>>,
          <<[RID |-> 1, DATE |-> NaT, DX |-> "CN"]>>,
          <<[RID |-> 1, DATE |-> T0 - Day(30), DX |-> "CN"],
            [RID |-> 2, DATE |-> T0 + Day(30), DX |-> "MCI"]>>,
          <<[RID |-> 1, DATE |-> T0 + Day(30), DX |-> "CN"],
            [RID |-> 2, DATE |-> T0 - Day(30), DX |-> "MCI"]>> }}

ApoeTables ==
    {WithIdx(s) : s \in
        { <<>>,
          <<[RID |-> 1, GENOTYPE |-> "3/4"]>>,
          <<[RID |-> 1, GENOTYPE |-> "0/0"]>>,
          <<[RID |-> 1, GENOTYPE |-> "3/3"], [RID |-> 2, GENOTYPE |-> "4/4"]>> }}

PipeAmyRows == [RID : Rids, DATE : {T0 + Day(10), T0 - Day(400)}]

InitPipe ==
    /\ pc = "step4"
    /\ tau_raw \in {WithIdx(s) : s \in BoundedSeq(TauRows, MaxTau)}
    /\ amy_merged \in {WithIdx(s) : s \in BoundedSeq(PipeAmyRows, MaxAmy)}
    /\ tau_pet = <<>> /\ tau_merged = <<>> /\ tau_cov = <<>> /\ tau_adni = <<>>
    /\ tau_matched = <<>>
    /\ tau_amy = [status |-> "running", rows |-> <<>>]
    /\ MatchIdle /\ QcIdle /\ ApoeIdle /\ JoinIdle /\ RegionIdle

\* Step 4.
FilterAndMergeVisit ==
    /\ pc = "step4"
    /\ \E tau_with_visit \in VisitTables :
          LET kept == filter_pet_qc([columns |-> TauColumns, rows |-> tau_raw],
                                    2, {"MK6240"}).rows
          IN  /\ tau_pet' = kept
              /\ tau_merged' = qc_and_visit(kept, tau_with_visit)
    /\ pc' = "step5"
    /\ UNCHANGED <<tau_raw, tau_cov, tau_adni, amy_merged, tau_matched, tau_amy,
                   exceptPipe>>

\* Step 5.  A merge_asof that raises ends the run.
AttachNearestAdni ==
    /\ pc = "step5"
    /\ \E adni2 \in AdniTables :
          LET res == merge_asof(sort_values(tau_merged), sort_values(adni2))
          IN  IF res.status = "ok"
              THEN /\ tau_adni' = WithDx(res.rows)
                   /\ pc' = "step6"
                   /\ UNCHANGED tau_amy
              ELSE /\ tau_amy' = res
                   /\ pc' = "failed"
                   /\ UNCHANGED tau_adni
    /\ UNCHANGED <<tau_raw, tau_pet, tau_merged, tau_cov, amy_merged, tau_matched,
                   exceptPipe>>

\* Step 6.
MergeApoeAndDropna ==
    /\ pc = "step6"
    /\ \E apoe_df \in ApoeTables :
          LET cov == WithApoe4(tau_adni, add_apoe4_status(apoe_df))
          IN  /\ tau_cov' = cov
              /\ tau_adni' = dropna_covariates(cov)
    /\ pc' = "step9"
    /\ UNCHANGED <<tau_raw, tau_pet, tau_merged, amy_merged, tau_matched, tau_amy,
                   exceptPipe>>

\* Step 9, lines 183-194.
AttachNearestAmy ==
    /\ pc = "step9"
    /\ LET res == merge_asof(sort_values(tau_adni), sort_values(amy_merged))
       IN  IF res.status = "ok"
           THEN /\ tau_matched' = WithAmyScan(res.rows)
                /\ pc' = "gate"
                /\ UNCHANGED tau_amy
           ELSE /\ tau_amy' = res
                /\ pc' = "failed"
                /\ UNCHANGED tau_matched
    /\ UNCHANGED <<tau_raw, tau_pet, tau_merged, tau_cov, tau_adni, amy_merged,
                   exceptPipe>>

\* Step 9, lines 196-197.
GapGate ==
    /\ pc = "gate"
    /\ tau_amy' = [status |-> "ok", rows |-> gap_filter(tau_matched)]
    /\ pc' = "done"
    /\ UNCHANGED <<tau_raw, tau_pet, tau_merged, tau_cov, tau_adni, amy_merged,
                   tau_matched, exceptPipe>>

NextPipe ==
    \/ FilterAndMergeVisit
    \/ AttachNearestAdni
    \/ MergeApoeAndDropna
    \/ AttachNearestAmy
    \/ GapGate

SpecPipe == InitPipe /\ [][NextPipe]_vars

(***************************************************************************)
(* Step 9 on its own: the cross-modality merge and the gap gate, from any  *)
(* tau table step 6 can leave (RID, SCANDATE, DX and APOE4 present).       *)
(***************************************************************************)
GateTauRows == [RID : Rids, DATE : {T0, T0 + 12}, DX : {"CN"}, APOE4 : {1}]

AmyTimes ==
    {T0 - Day(GapLimit), T0 - Day(GapLimit - 1) - 12, T0 - Day(GapLimit - 1),
     T0 + Day(GapLimit - 1), T0 + Day(GapLimit - 1) + 12, T0 + Day(GapLimit)}

GateAmyRows == [RID : Rids, DATE : AmyTimes]

InitGate ==
    /\ pc = "step9"
    /\ tau_adni \in {WithIdx(s) : s \in BoundedSeq(GateTauRows, MaxGateTau)}
    /\ amy_merged \in {WithIdx(s) : s \in BoundedSeq(GateAmyRows, MaxGateAmy)}
    /\ tau_raw = <<>> /\ tau_pet = <<>> /\ tau_merged = <<>> /\ tau_cov = <<>>
    /\ tau_matched = <<>>
    /\ tau_amy = [status |-> "running", rows |-> <<>>]
    /\ MatchIdle /\ QcIdle /\ ApoeIdle /\ JoinIdle /\ RegionIdle

NextGate == AttachNearestAmy \/ GapGate

SpecGate == InitGate /\ [][NextGate]_vars

\* SCANDATE_AMY - SCANDATE_TAU of a matched row, in hours.
Diff(r) == r.SCANDATE_AMY - r.SCANDATE_TAU

\* C5: the gap gate keeps a matched row exactly when the absolute value of
\* its whole-day difference (the difference in days, rounded down) is below
\* 365, that is when -364 days <= difference < 365 days: 364 and -364 days
\* are kept, 365 and -365 days are dropped, and every row of the final table
\* has a difference strictly inside (-365, 365) days.
C5_GapGateExclusive ==
    pc = "done" =>
        /\ \A k \in DOMAIN tau_matched :
              LET r == tau_matched[k] IN
              (r \in Range(tau_amy.rows)) <=>
                  /\ r.SCANDATE_AMY # NaT
                  /\ -Day(GapLimit - 1) <= Diff(r)
                  /\ Diff(r) < Day(GapLimit)
        /\ \A k \in DOMAIN tau_amy.rows :
              /\ tau_amy.rows[k] \in Range(tau_matched)
              /\ -Day(GapLimit) < Diff(tau_amy.rows[k])
              /\ Diff(tau_amy.rows[k]) < Day(GapLimit)

\* One row 364 days apart kept, one row 365 days apart dropped.
C5_Witness ==
    /\ pc = "done"
    /\ \E r \in Range(tau_matched) :
          r.SCANDATE_AMY # NaT /\ Diff(r) = Day(364) /\ r \in Range(tau_amy.rows)
    /\ \E r \in Range(tau_matched) :
          r.SCANDATE_AMY # NaT /\ Diff(r) = Day(365) /\ r \notin Range(tau_amy.rows)

(***************************************************************************)
(* Claims about the tau records, checked under SpecPipe.                   *)
(***************************************************************************)
PassesQc(s) == s.QC_FLAG = 2 /\ s.TRACER # "MK6240"

\* The amyloid scans of the record's subject.
AmyOf(s) == {a \in Range(amy_merged) : a.RID = s.RID /\ a.DATE # NaT}

\* The record's nearest amyloid scan, the earlier one of two equally near.
IsNearestAmy(s, a) ==
    /\ a \in AmyOf(s)
    /\ \A b \in AmyOf(s) :
          \/ Abs(a.DATE - s.DATE) < Abs(b.DATE - s.DATE)
          \/ Abs(a.DATE - s.DATE) = Abs(b.DATE - s.DATE) /\ a.DATE <= b.DATE

\* The record's nearest amyloid scan is less than 365 days away.
NearestAmyNear(s) ==
    \E a \in AmyOf(s) : IsNearestAmy(s, a) /\ Abs(a.DATE - s.DATE) < Day(GapLimit)

\* The record's nearest amyloid scan passes the gap gate.
NearestAmyPasses(s) ==
    \E a \in AmyOf(s) :
        /\ IsNearestAmy(s, a)
        /\ -Day(GapLimit - 1) <= a.DATE - s.DATE
        /\ a.DATE - s.DATE < Day(GapLimit)

Accepted(s) == \E r \in Range(tau_amy.rows) : r.idx = s.idx

\* After steps 5 and 6 the record has a diagnosis and an APOE4 score.
Covariates(s) == \E r \in Range(tau_cov) : r.idx = s.idx /\ HasCovariates(r)

CatalogLen == 85
MaxCols == 3

\* str.replace("-", "_") and str.upper(), character by character.
replace_dash(c) == IF c = "-" THEN "_" ELSE c

upper(c) ==
    CASE c = "a" -> "A" [] c = "b" -> "B" [] c = "c" -> "C" [] c = "d" -> "D"
      [] c = "r" -> "R" [] OTHER -> c

SUVR == <<"_", "S", "U", "V", "R">>

\* Lines 202-203.
fs_label(raw) == [i \in DOMAIN raw |-> upper(replace_dash(raw[i]))] \o SUVR

\* str.endswith
endswith(name, suffix) ==
    /\ Len(name) >= Len(suffix)
    /\ SubSeq(name, Len(name) - Len(suffix) + 1, Len(name)) = suffix

\* Line 208: positions in the catalog, counted from 0.
subcortical_idx == (34..48) \cup {83}

\* [c for c in seq if Keep(c)], by position.
Positions(seq, S) == Without(seq, DOMAIN seq \ S)

\* Line 209: np.delete raises IndexError for a position past the end.
cortical_labels(labels) ==
    IF \E i \in subcortical_idx : i >= Len(labels)
    THEN [status |-> "IndexError", labels |-> <<>>]
    ELSE [status |-> "ok",
          labels |-> Without(labels, {i + 1 : i \in subcortical_idx})]

\* Line 210, and what it would be if it walked the table instead.
suvr_cols_in_table_order(ordered, columns) ==
    Positions(columns, {i \in DOMAIN columns : columns[i] \in Range(ordered)})

suvr_cols_ordered(ordered, columns) ==
    Positions(ordered, {i \in DOMAIN ordered : ordered[i] \in Range(columns)})

\* Line 212.
non_suvr_cols(columns) ==
    Positions(columns, {i \in DOMAIN columns : ~endswith(columns[i], SUVR)})

\* Lines 202-213: the columns of tau_amy_cortical.
select_regions(catalog, columns) ==
    LET labels == [i \in DOMAIN catalog |-> fs_label(catalog[i])]
        ordered == cortical_labels(labels)
    IN  IF ordered.status # "ok" THEN [status |-> ordered.status, columns |-> <<>>]
        ELSE [status |-> "ok",
              columns |-> non_suvr_cols(columns)
                            \o suvr_cols_ordered(ordered.labels, columns)]

\* Catalog entries that are no column of the table.
Digit(n) == <<"0", "1", "2", "3", "4", "5", "6", "7", "8", "9">>[n + 1]
Filler(i) == <<"r", Digit((i \div 10) % 10), Digit(i % 10)>>

\* A catalog with the given labels at the given positions (from 0).
CatalogWith(at) ==
    [i \in 1..CatalogLen |-> IF (i - 1) \in DOMAIN at THEN at[i - 1] ELSE Filler(i)]

Catalogs ==
    { CatalogWith(0 :> <<"a", "-", "b">> @@ 33 :> <<"c">> @@ 34 :> <<"d">>),
      CatalogWith(0 :> <<"c">> @@ 33 :> <<"A", "_", "b">> @@ 83 :> <<"d">>),
      SubSeq(CatalogWith(0 :> <<"a", "-", "b">> @@ 1 :> <<"c">>), 1, 83) }

TableColumns ==
    { <<"R", "I", "D">>, <<"D", "X">>,
      <<"A", "_", "B">> \o SUVR, <<"C">> \o SUVR, <<"D">> \o SUVR, <<"B">> \o SUVR }

\* The sequences without repetition of at most n elements of S.
RECURSIVE Arrangements(_, _)
Arrangements(S, n) ==
    IF n = 0 THEN {<<>>}
    ELSE LET shorter == Arrangements(S, n - 1)
         IN  shorter \cup {Append(q, x) : q \in shorter, x \in S} 

NoRepeat(q) == \A i \in DOMAIN q : \A j \in DOMAIN q : q[i] = q[j] => i = j

ColumnOrders == {q \in Arrangements(TableColumns, MaxCols) : NoRepeat(q)}

InitRegion ==
    /\ pc = "step10"
    /\ fs_region \in Catalogs
    /\ columns_a \in ColumnOrders
    /\ columns_b \in {q \in ColumnOrders : Range(q) = Range(columns_a)}
    /\ cortical_a = <<>> /\ cortical_b = <<>>
    /\ MatchIdle /\ QcIdle /\ ApoeIdle /\ JoinIdle /\ PipeIdle

\* Step 10 on the table, and on the same table with its columns reordered.
SelectRegions ==
    /\ pc = "step10"
    /\ cortical_a' = select_regions(fs_region, columns_a)
    /\ cortical_b' = select_regions(fs_region, columns_b)
    /\ pc' = "selected"
    /\ UNCHANGED <<fs_region, columns_a, columns_b, exceptRegion>>

NextRegion == SelectRegions

SpecRegion == InitRegion /\ [][NextRegion]_vars

Selected10 == pc = "selected" /\ cortical_a.status = "ok" /\ cortical_b.status = "ok"

IsSuvr(c) == endswith(c, SUVR)

SuvrPart(cols) == Positions(cols, {i \in DOMAIN cols : IsSuvr(cols[i])})
OtherPart(cols) == Positions(cols, {i \in DOMAIN cols : ~IsSuvr(cols[i])})

\* The first position (from 1) of a label in the normalised catalog.
CatalogPosition(c) ==
    SetMin({i \in DOMAIN fs_region : fs_label(fs_region[i]) = c})

\* Every other column ahead of the _SUVR columns, the other columns as in the
\* table, the _SUVR columns in catalog order.
Layout(result, columns) ==
    /\ \A i \in DOMAIN result : \A j \in DOMAIN result :
          (IsSuvr(result[i]) /\ ~IsSuvr(result[j])) => j < i
    /\ OtherPart(result) = OtherPart(columns)
    /\ \A i \in DOMAIN result : \A j \in DOMAIN result :
          (i < j /\ IsSuvr(result[i]) /\ IsSuvr(result[j]))
              => CatalogPosition(result[i]) < CatalogPosition(result[j])

\* C8: two tables that are column permutations of each other give the same
\* output column sequence.
C8_SameOutputColumns ==
    Selected10 => cortical_a.columns = cortical_b.columns

\* C8, amended: the two outputs have the same _SUVR columns in the same
\* (catalog) order, ahead of them every other column of the table; the other
\* columns keep the order they have in their own table.
C8_SameRegionColumns ==
    Selected10 =>
        /\ SuvrPart(cortical_a.columns) = SuvrPart(cortical_b.columns)
        /\ Layout(cortical_a.columns, columns_a)
        /\ Layout(cortical_b.columns, columns_b)

\* Two region columns in opposite orders in the two tables, one order out.
C8_Witness ==
    /\ Selected10
    /\ Len(SuvrPart(cortical_a.columns)) = 2
    /\ SuvrPart(columns_a) # SuvrPart(columns_b)
    /\ SuvrPart(columns_a) # SuvrPart(cortical_a.columns)

====
